---- MODULE Spec2Model ----
(***************************************************************************)
(* Model of the Questioner of src/src/lib/questioner.mjs: the action       *)
(* dispatch loop (#processActions), the question prompt / re-prompt loop   *)
(* (#askQuestion), the mapping resolver (#processMapping), the review and  *)
(* its rollback (#processReview) and the query surface (get, has,          *)
(* getResult, values).                                                     *)
(*                                                                         *)
(* The engine is one sequential async flow that suspends only while it     *)
(* waits for a line of operator input.  A step of the model is either the  *)
(* processing of one action of the list up to the next suspension point,   *)
(* or the handling of one line typed by the operator.                      *)
(***************************************************************************)
EXTENDS Integers, Sequences, FiniteSets

(* ----------------------------------------------------------------------- *)
(* Bounds                                                                  *)
(* ----------------------------------------------------------------------- *)

\* the prompt and warning counters saturate at this value
MaxCount == 2

\* the operator rejects reviews until this many passes have been started
MaxPass == 2

(* ----------------------------------------------------------------------- *)
(* JavaScript values.  Every value is a record of the same shape so that   *)
(* any two of them can be compared.                                        *)
(* ----------------------------------------------------------------------- *)

Undef == [kind |-> "undef", s |-> "", n |-> 0, items |-> <<>>]

StrV(str) == [kind |-> "str", s |-> str, n |-> 0, items |-> <<>>]

IntV(i) == [kind |-> "int", s |-> "", n |-> i, items |-> <<>>]

BoolV(b) == [kind |-> "bool", s |-> IF b THEN "true" ELSE "false", n |-> 0, items |-> <<>>]

ArrV(vs) == [kind |-> "arr", s |-> "", n |-> 0, items |-> vs]

\* the decimal numerals the model reads and writes
Numerals == {"0", "1", "2", "3", "5", "12", "14", "100"}

NumeralValue(str) ==
  CASE str = "0" -> 0
    [] str = "1" -> 1
    [] str = "2" -> 2
    [] str = "3" -> 3
    [] str = "5" -> 5
    [] str = "12" -> 12
    [] str = "14" -> 14
    [] str = "100" -> 100

\* Number.prototype.toString
intToString(i) == CHOOSE str \in Numerals : NumeralValue(str) = i

\* value.toString() of a defined scalar
toString(v) ==
  CASE v.kind = "str" -> v.s
    [] v.kind = "bool" -> v.s
    [] v.kind = "int" -> intToString(v.n)

(* ----------------------------------------------------------------------- *)
(* Strings.  A string that is taken apart (split, parseInt) is looked up   *)
(* as the sequence of its characters.                                      *)
(* ----------------------------------------------------------------------- *)

\* the lines and separators of the model, character by character
Texts ==
  { << >>, << "-" >>, << "y", "e", "s" >>, << "n", "o" >>, << "f", "o", "o" >>,
    << "0" >>, << "1" >>, << "2" >>, << "3" >>, << "1", "2" >>,
    << "1", ",", "2" >>, << "1", ",", " ", "3" >>, << "1", ",", ",", "2" >>,
    << "1", "|", "&", "(", "2" >>,
    << "H", "i", " ", ",", " ", "B", "y", "e" >>,
    << "H", "i", "|", "&", "(", "B", "y", "e" >>,
    << "|", "&", "(" >>, << "," >> }

\* Array.prototype.join('') of a sequence of characters
RECURSIVE join(_)
join(cs) == IF cs = << >> THEN "" ELSE Head(cs) \o join(Tail(cs))

\* the characters of a string
chars(str) == CHOOSE cs \in Texts : join(cs) = str

Digits == {"0", "1", "2", "3", "4", "5", "6", "7", "8", "9"}

\* the length of the run of characters of the set that starts at position i
RECURSIVE run(_, _, _)
run(cs, i, set) ==
  IF i > Len(cs) \/ cs[i] \notin set THEN 0 ELSE 1 + run(cs, i + 1, set)

\* parseInt: the number the leading digits of the string stand for, ok = FALSE
\* for NaN
parseInt(str) ==
  LET cs == chars(str)
      n == run(cs, 1, Digits)
  IN IF n = 0 THEN [ok |-> FALSE, n |-> 0]
     ELSE [ok |-> TRUE, n |-> NumeralValue(join(SubSeq(cs, 1, n)))]

\* the characters with a meaning of their own in a regular expression
Meta == {".", "+", "*", "?", "^", "$", "|", "(", ")", "{", "}", "[", "]", "\\"}

\* separator.replaceAll(/(\.|\+|...)/g, '\\$1'): a backslash before every
\* character of Meta
RECURSIVE escaped(_)
escaped(cs) ==
  IF cs = << >> THEN << >>
  ELSE (IF Head(cs) \in Meta THEN << "\\", Head(cs) >> ELSE << Head(cs) >>)
         \o escaped(Tail(cs))

\* new RegExp(source), for a source without alternation, groups, classes or
\* quantifiers: the sequence of its atoms.  An escaped character and a
\* character outside Meta stand for themselves and '.' for any character;
\* any other character of Meta makes the result invalid (the model's
\* sources with one are "|&(" unescaped, a SyntaxError).
RECURSIVE RegExp(_)
RegExp(source) ==
  IF source = << >> THEN [valid |-> TRUE, atoms |-> << >>]
  ELSE IF Head(source) = "\\"
    THEN IF Len(source) < 2 THEN [valid |-> FALSE, atoms |-> << >>]
         ELSE LET rest == RegExp(Tail(Tail(source)))
              IN [valid |-> rest.valid,
                  atoms |-> << [c |-> source[2], any |-> FALSE] >> \o rest.atoms]
  ELSE LET rest == RegExp(Tail(source))
       IN [valid |-> rest.valid /\ (Head(source) \notin Meta \/ Head(source) = "."),
           atoms |-> << [c |-> Head(source), any |-> Head(source) = "."] >> \o rest.atoms]

WhiteSpace == {" "}

\* the atoms match the characters from position i on
matchesAt(cs, i, atoms) ==
  /\ i + Len(atoms) - 1 <= Len(cs)
  /\ \A j \in 1..Len(atoms) : atoms[j].any \/ cs[i + j - 1] = atoms[j].c

\* a match of \s*<atoms>\s* that starts at position q: the position after
\* it, 0 when there is none.  Both \s* take as much as they can.
matchEnd(cs, q, atoms) ==
  LET ks == {k \in 0..run(cs, q, WhiteSpace) : matchesAt(cs, q + k, atoms)}
      k == CHOOSE x \in ks : \A y \in ks : y <= x
      after == q + k + Len(atoms)
  IN IF ks = {} THEN 0 ELSE after + run(cs, after, WhiteSpace)

\* String.prototype.split(regexp), the regular expression being
\* \s*<atoms>\s* with at least one atom: p is the start of the current
\* piece, q the position a match is tried at
RECURSIVE splitFrom(_, _, _, _)
splitFrom(cs, atoms, p, q) ==
  IF q > Len(cs) THEN << join(SubSeq(cs, p, Len(cs))) >>
  ELSE LET e == matchEnd(cs, q, atoms)
       IN IF e = 0 THEN splitFrom(cs, atoms, p, q + 1)
          ELSE << join(SubSeq(cs, p, q - 1)) >> \o splitFrom(cs, atoms, e, e)

(* ----------------------------------------------------------------------- *)
(* Type translation and answer verification                                *)
(* ----------------------------------------------------------------------- *)

\* String.prototype.toLowerCase on the type tokens of the bundles
toLowerCase(str) ==
  CASE str = "INT" -> "int"
    [] str = "Bool" -> "bool"
    [] OTHER -> str

\* the token translateType does not know: the translation throws
UnknownType == "unknown"

\* translateType: the type token, undefined ("") meaning string, compared in
\* lower case
translateType(type) ==
  LET token == toLowerCase(type)
  IN CASE token \in {"", "string"} -> "ValidatedString"
       [] token \in {"int", "integer"} -> "Integer"
       [] token \in {"float", "numeric"} -> "Numeric"
       [] token \in {"bool", "boolean"} -> "BooleanString"
       [] OTHER -> UnknownType

TrueWords == {"y", "yes", "true"}

FalseWords == {"n", "no", "false"}

\* the absent 'min' constraint
NoMin == -1000

\* the absent 'max' constraint
NoMax == 1000

\* The external string-input type functions as verifyAnswerForm calls them:
\* type(input, options).  The result is the pair [value, issue] with
\* ok = (issue === undefined).  input = Undef is an undefined input (the '-'
\* sentinel); an empty input string is, like undefined, "no input".  opts
\* carries the constraint options spread from the action (required, min,
\* max).
verifyAnswerForm(type, input, opts) ==
  IF input = Undef \/ input.s = ""
    THEN IF opts.required THEN [ok |-> FALSE, value |-> Undef]
                          ELSE [ok |-> TRUE, value |-> Undef]
    ELSE CASE type = "ValidatedString" -> [ok |-> TRUE, value |-> StrV(input.s)]
           [] type = "BooleanString" ->
                IF input.s \in TrueWords THEN [ok |-> TRUE, value |-> BoolV(TRUE)]
                ELSE IF input.s \in FalseWords THEN [ok |-> TRUE, value |-> BoolV(FALSE)]
                ELSE IF input.s \in Numerals
                  THEN [ok |-> TRUE, value |-> BoolV(NumeralValue(input.s) > 0)]
                ELSE [ok |-> FALSE, value |-> Undef]
           [] type \in {"Integer", "Numeric"} ->
                IF input.s \notin Numerals THEN [ok |-> FALSE, value |-> Undef]
                ELSE IF NumeralValue(input.s) < opts.min THEN [ok |-> FALSE, value |-> Undef]
                ELSE IF NumeralValue(input.s) > opts.max THEN [ok |-> FALSE, value |-> Undef]
                ELSE [ok |-> TRUE, value |-> IntV(NumeralValue(input.s))]
           [] OTHER -> [ok |-> FALSE, value |-> Undef]

(* ----------------------------------------------------------------------- *)
(* Interrogation bundles                                                   *)
(* ----------------------------------------------------------------------- *)

\* An action with every field undefined ("" / Undef / <<>>).  The parameter
\* of an action without one is the property key JavaScript makes of
\* undefined.  disposition, value and rawAnswer are the fields the engine
\* attaches to its clone of the action while it runs.
NoAction ==
  [prompt |-> "", parameter |-> "undefined", type |-> "", condition |-> "",
   elseValue |-> Undef, elseSource |-> "", noSkipDefined |-> FALSE,
   default |-> Undef, required |-> FALSE, min |-> NoMin, max |-> NoMax,
   options |-> <<>>, multiValue |-> FALSE, separator |-> "",
   maps |-> <<>>, statement |-> "", review |-> "",
   disposition |-> "", value |-> Undef, rawAnswer |-> Undef]

QuestionAction(prompt, parameter, type) ==
  [NoAction EXCEPT !.prompt = prompt, !.parameter = parameter, !.type = type]

StatementAction(text) == [NoAction EXCEPT !.statement = text]

ReviewAction(scope) == [NoAction EXCEPT !.review = scope]

MapsAction(condition, maps) == [NoAction EXCEPT !.condition = condition, !.maps = maps]

\* a mapping entry { parameter, value, condition }
MapValue(parameter, value, condition) ==
  [parameter |-> parameter, source |-> "", value |-> value, type |-> "",
   condition |-> condition, required |-> FALSE, min |-> NoMin, max |-> NoMax]

\* a mapping entry { parameter, source, type }
MapSource(parameter, source, type) ==
  [parameter |-> parameter, source |-> source, value |-> Undef, type |-> type,
   condition |-> "", required |-> FALSE, min |-> NoMin, max |-> NoMax]

\* test 'Reviews only items since the last review (multiple reviews)'
reviewsIB ==
  << QuestionAction("Q1", "V1", ""), ReviewAction("questions"),
     QuestionAction("Q2", "V2", ""), ReviewAction("questions") >>

\* the scenario of two mapping entries under exclusive conditions
subMapIB ==
  << QuestionAction("Client?", "IS_CLIENT", "bool"),
     MapsAction("", << MapValue("ORG", StrV("us"), "IS_CLIENT"),
                       MapValue("ORG", StrV("them"), "!IS_CLIENT") >>) >>

\* test-data.js simpleMapIB, followed by a review of the answers
simpleMapIB ==
  << QuestionAction("Is the Company the client?", "IS_CLIENT", "bool"),
     MapsAction("IS_CLIENT", << MapValue("ORG", StrV("us"), "") >>),
     MapsAction("!IS_CLIENT", << MapValue("ORG", StrV("them"), "") >>),
     ReviewAction("questions") >>

\* the first mapping of simpleMapIB alone, followed by a review of the answers
conditionalMapIB ==
  << QuestionAction("Is the Company the client?", "IS_CLIENT", "bool"),
     MapsAction("IS_CLIENT", << MapValue("ORG", StrV("us"), "") >>),
     ReviewAction("questions") >>

\* test-data.js conditionalQuestionIB, followed by a review of the answers
conditionalQuestionIB ==
  << QuestionAction("Is the Company the client?", "IS_CLIENT", "bool"),
     [QuestionAction("Do you like milk?", "V1", "") EXCEPT !.condition = "IS_CLIENT"],
     ReviewAction("questions") >>

\* test 'R-asks after failed validation' ({ type : 'int', min : 10 }),
\* followed by a statement
retryIB ==
  << [QuestionAction("Q", "V1", "int") EXCEPT !.min = 10],
     StatementAction("Bye!") >>

\* test-data.js doubleQuestionIB
doubleQuestionIB ==
  << QuestionAction("Is the Company the client?", "IS_CLIENT", "bool"),
     QuestionAction("Really?", "IS_CLIENT", "bool"),
     QuestionAction("Done?", "V1", "bool") >>

\* test "'review : all' includes review of mapped items"
reviewAllIB ==
  << QuestionAction("Q1", "V1", "int"),
     MapsAction("", << MapSource("V2", "V1 + 2", "int") >>),
     ReviewAction("all") >>

\* a conditional question with a literal elseValue that is always asked when
\* its condition holds
elseValueIB ==
  << QuestionAction("Client?", "IS_CLIENT", "bool"),
     [QuestionAction("Q1", "V1", "int") EXCEPT
        !.condition = "IS_CLIENT", !.elseValue = IntV(5), !.noSkipDefined = TRUE],
     ReviewAction("questions") >>

\* a conditional question with a literal elseValue
elseSkipIB ==
  << QuestionAction("Contractor?", "IS_CLIENT", "bool"),
     [QuestionAction("Q1", "V1", "int") EXCEPT
        !.condition = "!IS_CLIENT", !.elseValue = IntV(5)],
     ReviewAction("questions") >>

\* test-data.js conditionStatementIB, followed by a review
conditionStatementIB ==
  << [StatementAction("Hi!") EXCEPT !.condition = "false"],
     StatementAction("Bye!"),
     ReviewAction("questions") >>

\* a review of everything after a question and a mapping under a condition,
\* a mapping and a statement
reviewMixIB ==
  << QuestionAction("Client?", "IS_CLIENT", "bool"),
     [QuestionAction("Q1", "V1", "int") EXCEPT !.condition = "IS_CLIENT"],
     MapsAction("IS_CLIENT", << MapValue("ORG", StrV("us"), "") >>),
     MapsAction("", << MapValue("V2", IntV(5), "") >>),
     StatementAction("Bye!"),
     ReviewAction("all") >>

\* test-data.js sourceMappingIB: a question and a mapping whose entries have
\* a source, one of type 'int' and one of type 'bool'
sourceMappingIB ==
  << QuestionAction("Q1", "V1", "int"),
     MapsAction("", << MapSource("V2", "V1 + 2", "int"),
                       MapSource("IS_CLIENT", "V1", "bool") >>) >>

\* a question under a condition, without elseValue or elseSource, followed by
\* a mapping whose source names the parameter of the question
hiddenParameterIB ==
  << QuestionAction("Client?", "IS_CLIENT", "bool"),
     [QuestionAction("Q1", "V1", "int") EXCEPT !.condition = "IS_CLIENT"],
     MapsAction("", << MapSource("V2", "V1 + 2", "int") >>) >>

\* test 'gracefully handles empty review'
emptyReviewIB == << ReviewAction("questions") >>

\* test "when question is condition-skipped, uses 'elseValue' if present":
\* an elseValue that is a raw string
elseStringIB ==
  << QuestionAction("Client?", "IS_CLIENT", "bool"),
     [QuestionAction("Q1", "V1", "int") EXCEPT
        !.condition = "IS_CLIENT", !.elseValue = StrV("5")],
     StatementAction("Bye!") >>

\* test "when question is condition-skipped, uses 'elseSource' if present",
\* followed by a mapping under a condition on the substitute value
elseSourceIB ==
  << QuestionAction("Client?", "IS_CLIENT", "bool"),
     [QuestionAction("Q1", "V1", "bool") EXCEPT
        !.condition = "IS_CLIENT", !.elseSource = "!IS_CLIENT"],
     [QuestionAction("Q2", "V2", "int") EXCEPT
        !.condition = "IS_CLIENT", !.elseSource = "V1 + 2"],
     MapsAction("V1", << MapValue("ORG", StrV("us"), "") >>) >>

\* test 'Clear option question after rejecting review'
optionsIB ==
  << [QuestionAction("Q", "V1", "") EXCEPT
        !.options = << "Hi", "Bye" >>, !.default = StrV("Bye")],
     ReviewAction("questions") >>

\* a required question with options
requiredOptionsIB ==
  << [QuestionAction("Q", "V1", "") EXCEPT
        !.options = << "Hi", "Bye" >>, !.required = TRUE],
     StatementAction("Bye!") >>

\* test 'multi-value input (option locked)', separator '|&('
multiOptionsIB ==
  << [QuestionAction("Q", "V1", "") EXCEPT
        !.options = << "Hi", "Bye" >>, !.multiValue = TRUE, !.separator = "|&("] >>

\* test 'multi-value input (free form)', separator '|&('
multiValueIB ==
  << [QuestionAction("Q", "V1", "") EXCEPT
        !.multiValue = TRUE, !.separator = "|&("] >>

\* test "literal default '%s' type '%s' -> %p", [1, 2] and 'int'
multiDefaultIB ==
  << [QuestionAction("Q", "V1", "int") EXCEPT
        !.multiValue = TRUE, !.default = ArrV(<< IntV(1), IntV(2) >>)] >>

\* test 'Reset required free-form answer after bad answer and then accept
\* default', followed by a review
defaultIB ==
  << [QuestionAction("Q", "V1", "int") EXCEPT
        !.default = IntV(100), !.required = TRUE],
     ReviewAction("questions") >>

\* a question with a default that is not required, followed by a review
plainDefaultIB ==
  << [QuestionAction("Q", "V1", "int") EXCEPT !.default = IntV(5)],
     ReviewAction("questions") >>

\* sourceMappingIB with the type of the mapping entry left out
sourceStringIB ==
  << QuestionAction("Q1", "V1", "int"),
     MapsAction("", << MapSource("V2", "V1 + 2", "") >>) >>

\* an empty action list
emptyIB == << >>

\* an action with none of 'prompt', 'maps', 'statement', 'review'
noKindIB ==
  << StatementAction("Hi!"), [NoAction EXCEPT !.parameter = "V1"] >>

\* actions with two of 'prompt', 'maps', 'statement', 'review'
twoKindsIB ==
  << [QuestionAction("Q1", "V1", "") EXCEPT !.statement = "Hi!"],
     [StatementAction("Bye!") EXCEPT !.review = "questions"] >>

\* test-data.js noQuestionParameterIB
noQuestionParameterIB == << [NoAction EXCEPT !.prompt = "hey"] >>

\* test-data.js badParameterIB
badParameterIB == << QuestionAction("foo?", "V1", "invalid") >>

\* a type token in upper case
upperTypeIB == << QuestionAction("Q1", "V1", "INT") >>

\* a type token that contains the name of a type
partTypeIB == << StatementAction("Hi!"), QuestionAction("Q1", "V1", "point") >>

\* a mapping entry with an unknown type token
mapTypeIB ==
  << StatementAction("Hi!"),
     MapsAction("", << [MapValue("ORG", StrV("us"), "") EXCEPT !.type = "invalid"] >>) >>

\* a mapping entry with both 'source' and 'value'
bothMapIB ==
  << QuestionAction("Q1", "V1", "int"),
     MapsAction("", << [MapSource("V2", "V1 + 2", "int") EXCEPT !.value = IntV(5)] >>) >>

\* a mapping entry without 'parameter'
noMapParameterIB == << MapsAction("", << MapValue("undefined", StrV("us"), "") >>) >>

\* a mapping entry with neither 'source' nor 'value'
neitherMapIB == << MapsAction("", << MapValue("ORG", Undef, "") >>) >>

\* a review of a scope the constructor does not know
badReviewIB == << ReviewAction("maps") >>

\* the action lists that break, or may seem to break, a rule of the
\* interrogation bundle
Malformed ==
  << sourceStringIB, emptyIB, noKindIB, twoKindsIB, noQuestionParameterIB,
     badParameterIB, upperTypeIB, partTypeIB, mapTypeIB, bothMapIB,
     noMapParameterIB, neitherMapIB, badReviewIB >>

\* the interrogation bundles the model is run on
Bundles ==
  << reviewsIB, subMapIB, simpleMapIB, conditionalMapIB, conditionalQuestionIB, retryIB,
     doubleQuestionIB, reviewAllIB, elseValueIB, elseSkipIB,
     conditionStatementIB, reviewMixIB, sourceMappingIB, hiddenParameterIB,
     emptyReviewIB,
     elseStringIB, elseSourceIB,
     optionsIB, requiredOptionsIB, multiOptionsIB, multiValueIB,
     multiDefaultIB, defaultIB, plainDefaultIB >>

ParameterNames == {"IS_CLIENT", "ORG", "V1", "V2", "undefined"}

\* The initialParameters objects the model is run on: a function from the
\* keys of the object to their values.
NoParameters == [p \in {} |-> Undef]

InitialParameterSets ==
  { NoParameters,
    [p \in {"V1"} |-> StrV("12")],
    [p \in {"V1"} |-> IntV(12)],
    [p \in {"V1"} |-> StrV("foo")],
    [p \in {"IS_CLIENT"} |-> BoolV(FALSE)],
    [p \in {"IS_CLIENT"} |-> StrV("true")],
    [p \in {"ORG"} |-> StrV("them")] }

\* the lines the operator may type (already trimmed)
Lines == {"", "-", "yes", "no", "foo", "1", "12"}

\* the lines the operator may, besides, type at a question with options or
\* with several values
ListLines ==
  {"0", "2", "3", "1,2", "1, 3", "1,,2", "1|&(2", "Hi , Bye", "Hi|&(Bye"}

\* the separators of the bundles, "" for none
Separators == {"", "|&("}

\* #askQuestion, the separator: the characters of the source of the regular
\* expression, taken as they are
separatorAsIs(separator) ==
  IF separator = "" THEN << "," >> ELSE chars(separator)

\* #askQuestion, the separator: the characters of the source of the regular
\* expression, q.separator?.replaceAll(...) || ','
separatorOf(separator) ==
  IF separator = "" THEN << "," >> ELSE escaped(chars(separator))

\* answer.split(new RegExp(`\s*${separator}\s*`)) for every line and
\* separator of the model, computed once: whether the regular expression is
\* valid, and the pieces as answers
splits ==
  [separator \in Separators |->
     [line \in Lines \cup ListLines |->
        LET re == RegExp(separatorOf(separator))
            pieces == IF re.valid THEN splitFrom(chars(line), re.atoms, 1, 1)
                                  ELSE << >>
        IN [valid |-> re.valid,
            answers |-> [i \in 1..Len(pieces) |-> StrV(pieces[i])]]]]

split(line, separator) == splits[separator][line]

\* parseInt for every line of the model, computed once
parsedInts == [line \in Lines \cup ListLines |-> parseInt(line)]

(* ----------------------------------------------------------------------- *)
(* State                                                                   *)
(* ----------------------------------------------------------------------- *)

VARIABLES
  caller,             \* what the caller passes as 'interactions': whether it
                      \* is an array, and the action list as the caller has it
  shared,             \* #interactions is the caller's own array
  interactions,       \* #interactions: the engine's clone of the action list
  initialParameters,  \* #initialParameters
  noSkipDefined,      \* #noSkipDefined
  results,            \* #results: references to action / mapping entry objects
  pc,                 \* where the flow is: "new" (before the constructor),
                      \* "invalid" (the constructor threw), "constructed", "run" (in the loop of
                      \* #processActions), "ask" (awaiting an answer), "review"
                      \* (awaiting the verification), "done", "error"
  index,              \* position of the for loop of #processActions
  defaultValue,       \* #askQuestion: the default of the pending prompt
  included,           \* #processReview: the items of the pending review
  pass,               \* number of the current pass (invocation of #processActions)
  prompts,            \* how often the question just processed has been written
  warnings,           \* how many <warn> lines the question or review just
                      \* processed got
  asked,              \* the questions written during the current pass
  displayed,          \* the reviews displayed during the current pass
  accepted,           \* the displayed reviews answered 'yes' in the current pass
  skipped,            \* the actions condition-skipped during the current pass
  lastRead,           \* the line the last step read, NoLine if it read none
  evaluated,          \* the evaluations of an elseSource or a mapping source
                      \* the last step made: the expression and the method
                      \* of the Evaluator called
  rollback            \* the last rejection: the review, what it discarded, and
                      \* the parameter store right before it

vars ==
  << caller, shared, interactions, initialParameters, noSkipDefined, results, pc, index,
     defaultValue, included, pass, prompts, warnings, asked, displayed,
     accepted, skipped, lastRead,
                  evaluated, rollback >>

(* ----------------------------------------------------------------------- *)
(* The parameter store.  The operators take the action list and the result *)
(* list so that they can be applied to the state in the middle of a step.  *)
(* ----------------------------------------------------------------------- *)

\* #results holds the action objects themselves (m = 0) and the mapping
\* entry objects of mapping actions (m = position in 'maps')
ActionRef(a) == [a |-> a, m |-> 0]

MapRef(a, m) == [a |-> a, m |-> m]

parameterOf(ints, ref) ==
  IF ref.m = 0 THEN ints[ref.a].parameter ELSE ints[ref.a].maps[ref.m].parameter

\* the disposition of a result, "" for none: the engine sets `disposition`
\* on actions only, never on the entry of a mapping
dispositionOf(ints, ref) ==
  IF ref.m = 0 THEN ints[ref.a].disposition ELSE ""

valueOf(ints, ref) ==
  IF ref.m = 0 THEN ints[ref.a].value ELSE ints[ref.a].maps[ref.m].value

\* getResult: the position in #results of the first result of the parameter, 0
\* when find() returns undefined
getResult(ints, res, parameter) ==
  LET hits == {k \in 1..Len(res) : parameterOf(ints, res[k]) = parameter}
  IN IF hits = {} THEN 0 ELSE CHOOSE k \in hits : \A h \in hits : k <= h

get(ints, res, parameter) ==
  LET k == getResult(ints, res, parameter)
      val == IF k = 0 THEN Undef ELSE valueOf(ints, res[k])
  IN IF val = Undef
       THEN IF parameter \in DOMAIN initialParameters
              THEN initialParameters[parameter] ELSE Undef
       ELSE val

has(ints, res, parameter) ==
  get(ints, res, parameter) # Undef \/ parameter \in DOMAIN initialParameters

\* #getResultByIndex: TRUE when an action with this _index is in #results
\* (the result then is the action itself)
getResultByIndex(res, a) == \E k \in 1..Len(res) : res[k] = ActionRef(a)

\* get values: the reduce over #results, a later result overwriting
values(ints, res) ==
  LET keys == {parameterOf(ints, res[k]) : k \in 1..Len(res)}
      last(p) == CHOOSE k \in 1..Len(res) :
                   /\ parameterOf(ints, res[k]) = p
                   /\ \A h \in 1..Len(res) : parameterOf(ints, res[h]) = p => h <= k
  IN [p \in keys |-> valueOf(ints, res[last(p)])]

\* #evalParams: Object.assign({}, initialParameters, values)
evalParams(ints, res) ==
  LET vals == values(ints, res)
  IN [p \in DOMAIN initialParameters \cup DOMAIN vals |->
        IF p \in DOMAIN vals THEN vals[p] ELSE initialParameters[p]]

\* #addResult: sets source.value and pushes the source object itself
addResult(ints, res, ref, value) ==
  [interactions |->
     IF ref.m = 0 THEN [ints EXCEPT ![ref.a].value = value]
                  ELSE [ints EXCEPT ![ref.a].maps[ref.m].value = value],
   results |-> Append(res, ref)]

(* ----------------------------------------------------------------------- *)
(* The external expression evaluator (condition-eval).  An expression is   *)
(* evaluated after the parameters it names are replaced by their values; a *)
(* parameter without a value makes the evaluation throw.                   *)
(* ----------------------------------------------------------------------- *)

\* the expressions of the bundles
Expression(str) ==
  CASE str = "IS_CLIENT" -> [op |-> "var", p |-> "IS_CLIENT", k |-> 0]
    [] str = "!IS_CLIENT" -> [op |-> "not", p |-> "IS_CLIENT", k |-> 0]
    [] str = "false" -> [op |-> "lit", p |-> "", k |-> 0]
    [] str = "V1 + 2" -> [op |-> "add", p |-> "V1", k |-> 2]
    [] str = "V1" -> [op |-> "var", p |-> "V1", k |-> 0]

\* the number a parameter stands for in an expression: ok = FALSE when the
\* parameter has no value or its text is neither a number nor a boolean
Operand(params, p) ==
  LET v == IF p \in DOMAIN params THEN params[p] ELSE Undef
  IN CASE v.kind = "int" -> [ok |-> TRUE, n |-> v.n]
       [] v.kind = "bool" -> [ok |-> TRUE, n |-> IF v.s = "true" THEN 1 ELSE 0]
       [] v.kind = "str" ->
            IF v.s \in Numerals THEN [ok |-> TRUE, n |-> NumeralValue(v.s)]
            ELSE IF v.s \in {"true", "false"}
              THEN [ok |-> TRUE, n |-> IF v.s = "true" THEN 1 ELSE 0]
            ELSE [ok |-> FALSE, n |-> 0]
       [] OTHER -> [ok |-> FALSE, n |-> 0]

\* Evaluator.evalNumber
evalNumber(str, params) ==
  LET e == Expression(str)
      x == Operand(params, e.p)
  IN CASE e.op = "lit" -> [ok |-> TRUE, n |-> 0]
       [] e.op = "var" -> x
       [] e.op = "not" -> [ok |-> x.ok, n |-> IF x.n = 0 THEN 1 ELSE 0]
       [] e.op = "add" -> [ok |-> x.ok, n |-> x.n + e.k]

\* Evaluator.evalTruth
evalTruth(str, params) ==
  LET r == evalNumber(str, params)
  IN [ok |-> r.ok, b |-> r.n # 0]

(* ----------------------------------------------------------------------- *)
(* The engine                                                              *)
(* ----------------------------------------------------------------------- *)

\* disposition constants
ANSWERED == "answered"

CONDITION_SKIPPED == "condition-skipped"

DEFINED_SKIPPED == "define-skipped"

\* a test of the disposition that no disposition passes
endsWithNothing(disposition) == FALSE

\* String.prototype.endsWith('skipped') on a disposition
endsWithSkipped(disposition) == disposition \in {CONDITION_SKIPPED, DEFINED_SKIPPED}

\* the options of a call that passes only { type, input }
NoOptions == [required |-> FALSE, min |-> NoMin, max |-> NoMax]

Inc(n, max) == IF n < max THEN n + 1 ELSE max

\* no line was read
NoLine == "none"

\* no clone: the structure itself
ibCloneNone(structure) == [same |-> TRUE, content |-> structure]

\* ibClone: a new array of new action objects with the content of the
\* structure
ibClone(structure) == [same |-> FALSE, content |-> structure]

\* the unanchored, case-sensitive pattern
\* /bool(?:ean)?|int(?:eger)?|float|numeric|string/ on the type tokens of
\* the bundles
matchesTypePattern(type) ==
  type \in {"string", "int", "integer", "float", "numeric", "bool", "boolean", "point"}

\* #verifyInterrogationBundle, verifyMapping: TRUE when it does not throw
verifyMapping(action) ==
  \A m \in 1..Len(action.maps) :
    /\ action.maps[m].parameter # "undefined"
    /\ action.maps[m].source # "" \/ action.maps[m].value # Undef

\* #verifyInterrogationBundle: TRUE when it does not throw.  (The checks of
\* 'options' are left out: the questions of the model have none.)
verifyInterrogationBundle(ints) ==
  \A i \in DOMAIN ints :
    LET action == ints[i]
    IN IF /\ action.prompt = "" /\ action.maps = << >>
          /\ action.statement = "" /\ action.review = ""
         THEN FALSE
       ELSE IF action.prompt # ""
         THEN /\ action.parameter # "undefined"
              /\ action.type = "" \/ matchesTypePattern(action.type)
       ELSE IF action.maps # << >> THEN verifyMapping(action)
       ELSE IF action.review # "" THEN action.review \in {"all", "questions"}
       ELSE TRUE

\* the parameters an action list names, in its actions and mapping entries
parametersIn(ints) ==
  {ints[a].parameter : a \in DOMAIN ints}
    \cup UNION {{ints[a].maps[m].parameter : m \in 1..Len(ints[a].maps)} :
                 a \in DOMAIN ints}

\* what callers pass as 'interactions'
Callers ==
  {[supplied |-> "array", interactions |-> Bundles[b]] : b \in DOMAIN Bundles}
    \cup {[supplied |-> "array", interactions |-> Malformed[b]] : b \in DOMAIN Malformed}
    \cup {[supplied |-> k, interactions |-> << >>] : k \in {"undefined", "null"}}

Init ==
  /\ caller \in Callers
  /\ shared = FALSE
  /\ interactions = << >>
  /\ initialParameters \in InitialParameterSets
  /\ DOMAIN initialParameters \subseteq parametersIn(caller.interactions)
  /\ noSkipDefined \in BOOLEAN
  /\ results = <<>>
  /\ pc = "new"
  /\ index = 1
  /\ defaultValue = Undef
  /\ included = <<>>
  /\ pass = 0
  /\ prompts = 0
  /\ warnings = 0
  /\ asked = {}
  /\ displayed = {}
  /\ accepted = {}
  /\ skipped = {}
  /\ lastRead = NoLine
  /\ evaluated = << >>
  /\ rollback = [by |-> 0, rejected |-> {}, accepted |-> {}, resolved |-> {},
                 get |-> [p \in ParameterNames |-> Undef]]

\* The caller's data during a step of the engine: what the engine writes to
\* its action list shows in the caller's list only if they are one array.
CallerData ==
  /\ caller' = IF shared THEN [caller EXCEPT !.interactions = interactions']
                         ELSE caller
  /\ UNCHANGED shared

\* what the steps that neither prompt nor restart leave alone
Quiet ==
  /\ prompts' = 0
  /\ warnings' = 0
  /\ lastRead' = NoLine
  /\ UNCHANGED << initialParameters, noSkipDefined, pass, asked, displayed,
                  accepted, rollback >>

\* an end of the pass that takes up the loop again at the first action
ContinueAround(st) ==
  /\ interactions' = st.interactions
  /\ results' = st.results
  /\ IF index = Len(interactions)
       THEN IF pass > 1 /\ Len(interactions) > 1
              THEN pc' = "run" /\ index' = 1
              ELSE pc' = "done" /\ index' = index
       ELSE pc' = "run" /\ index' = index + 1
  /\ defaultValue' = Undef
  /\ included' = <<>>

\* the end of an iteration of the for loop of #processActions: st is the
\* action list and the result list the iteration leaves
Continue(st) ==
  /\ interactions' = st.interactions
  /\ results' = st.results
  /\ IF index = Len(interactions)
       THEN pc' = "done" /\ index' = index
       ELSE pc' = "run" /\ index' = index + 1
  /\ defaultValue' = Undef
  /\ included' = <<>>

\* an exception leaves #processActions and question()
Throw(st) ==
  /\ interactions' = st.interactions
  /\ results' = st.results
  /\ pc' = "error"
  /\ UNCHANGED << index, defaultValue, included >>

State == [interactions |-> interactions, results |-> results]

\* new Questioner(...): the action list is cloned and verified.  A list
\* that is undefined or null makes #verifyInterrogationBundle throw a
\* TypeError.
constructor ==
  /\ pc = "new"
  /\ LET clone == ibClone(caller.interactions)
     IN /\ interactions' = clone.content
        /\ shared' = (caller.supplied = "array" /\ clone.same)
        /\ pc' = IF /\ caller.supplied = "array"
                    /\ verifyInterrogationBundle(clone.content)
                   THEN "constructed" ELSE "invalid"
  /\ UNCHANGED << caller, initialParameters, noSkipDefined, results, index,
                  defaultValue, included, pass, prompts, warnings, asked,
                  displayed, accepted, skipped, lastRead,
                  evaluated, rollback >>

\* question(): the first invocation of #processActions
question ==
  /\ pc = "constructed"
  /\ pc' = IF Len(interactions) = 0 THEN "done" ELSE "run"
  /\ pass' = 1
  /\ UNCHANGED << interactions, initialParameters, noSkipDefined, results, index,
                  defaultValue, included, prompts, warnings, asked, displayed,
                  accepted, skipped, lastRead,
                  evaluated, rollback >>
  /\ CallerData

\* the action the for loop of #processActions is at
Action == interactions[index]

\* the evaluation of the condition of the action, if it has one
Condition ==
  IF Action.condition = "" THEN [ok |-> TRUE, b |-> TRUE]
  ELSE evalTruth(Action.condition, evalParams(interactions, results))

\* a defined-skip test that does not look at the noSkipDefined of the action
definedSkipAnyAction ==
  /\ noSkipDefined # TRUE
  /\ has(interactions, results, Action.parameter)

definedSkip ==
  /\ noSkipDefined # TRUE
  /\ Action.noSkipDefined # TRUE
  /\ has(interactions, results, Action.parameter)

\* the action is neither condition-skipped nor defined-skipped
Executes == pc = "run" /\ Condition.ok /\ Condition.b /\ ~definedSkip

\* #processActions, "check condition skip": the condition is evaluated and
\* is false (or its evaluation throws)
ConditionSkip ==
  /\ pc = "run"
  /\ Action.condition # ""
  /\ ~(Condition.ok /\ Condition.b)
  /\ LET marked == [interactions EXCEPT ![index].disposition = CONDITION_SKIPPED]
         type == translateType(Action.type)
         params == evalParams(marked, results)
     IN IF ~Condition.ok THEN Throw(State)
        ELSE IF type = UnknownType
          THEN Throw([interactions |-> marked, results |-> results])
        ELSE IF Action.elseValue # Undef
          THEN LET r == verifyAnswerForm(type, Action.elseValue, Action)
                   value == IF Action.elseValue.kind = "str"
                              THEN ArrV(IF r.ok THEN << r.value >>
                                                ELSE << Undef, StrV("issue") >>)
                              ELSE Action.elseValue
               IN Continue(addResult(marked, results, ActionRef(index), value))
        ELSE IF Action.elseSource # ""
          THEN LET e == IF type = "BooleanString"
                          THEN LET t == evalTruth(Action.elseSource, params)
                               IN [ok |-> t.ok, s |-> IF t.b THEN "true" ELSE "false"]
                          ELSE LET n == evalNumber(Action.elseSource, params)
                               IN [ok |-> n.ok, s |-> IF n.ok THEN intToString(n.n) ELSE ""]
                   r == verifyAnswerForm(type, StrV(e.s), Action)
               IN IF ~e.ok THEN Throw([interactions |-> marked, results |-> results])
                  ELSE Continue(addResult(marked, results, ActionRef(index), r.value))
        ELSE Continue(addResult(marked, results, ActionRef(index), Undef))
  /\ skipped' = IF Condition.ok THEN skipped \cup {index} ELSE skipped
  /\ evaluated' =
       IF Condition.ok /\ translateType(Action.type) # UnknownType
          /\ Action.elseValue = Undef /\ Action.elseSource # ""
         THEN << [source |-> Action.elseSource,
                  by |-> IF translateType(Action.type) = "BooleanString"
                           THEN "evalTruth" ELSE "evalNumber"] >>
         ELSE << >>
  /\ Quiet
  /\ CallerData

\* a defined-skip that records the value it finds whatever the type says of it
DefinedSkipUnverified ==
  /\ pc = "run"
  /\ Condition.ok /\ Condition.b
  /\ definedSkip
  /\ LET marked == [interactions EXCEPT ![index].disposition = DEFINED_SKIPPED]
         current == get(interactions, results, Action.parameter)
     IN Continue(addResult(marked, results, ActionRef(index), current))
  /\ Quiet /\ UNCHANGED skipped
  /\ evaluated' = << >>
  /\ CallerData

\* #processActions, "is already defined?"
DefinedSkip ==
  /\ pc = "run"
  /\ Condition.ok /\ Condition.b
  /\ definedSkip
  /\ LET marked == [interactions EXCEPT ![index].disposition = DEFINED_SKIPPED]
         type == translateType(Action.type)
         current == get(interactions, results, Action.parameter)
         failed == [interactions |-> marked, results |-> results]
     IN IF type = UnknownType \/ current = Undef THEN Throw(failed)
        ELSE LET r == verifyAnswerForm(type, StrV(toString(current)), Action)
             IN IF ~r.ok THEN Throw(failed)
                ELSE Continue(addResult(marked, results, ActionRef(index), r.value))
  /\ Quiet /\ UNCHANGED skipped
  /\ evaluated' = << >>
  /\ CallerData

\* q.options[selectionI - 1]: undefined for NaN and outside of the options
option(q, selectionI) ==
  IF selectionI.ok /\ selectionI.n \in 1..Len(q.options)
    THEN StrV(q.options[selectionI.n])
    ELSE Undef

\* a default that is the previous answer or the default as they are
promptDefaultAsIs(q) ==
  IF q.rawAnswer # Undef THEN q.rawAnswer ELSE q.default

\* #askQuestion up to the prompt: the default of question q, the previous
\* answer if there is one
promptDefault(q) ==
  LET type == translateType(q.type)
      previous == IF q.options = << >>
                    THEN IF q.rawAnswer # Undef THEN q.rawAnswer ELSE q.default
                  ELSE IF q.rawAnswer # Undef
                    THEN option(q, parsedInts[q.rawAnswer.s])
                  ELSE q.default
  IN IF previous.kind = "str"
       THEN LET r == verifyAnswerForm(type, previous, q)
            IN IF r.ok THEN r.value ELSE Undef
       ELSE previous

\* #processActions, "it's a question": #askQuestion writes the prompt and
\* waits for a line
AskQuestion ==
  /\ Executes
  /\ Action.prompt # ""
  /\ IF translateType(Action.type) = UnknownType
       THEN /\ pc' = "error"
            /\ prompts' = 0
            /\ UNCHANGED << defaultValue, asked >>
       ELSE /\ pc' = "ask"
            /\ defaultValue' = promptDefault(Action)
            /\ prompts' = 1
            /\ asked' = asked \cup {index}
  /\ warnings' = 0
  /\ lastRead' = NoLine
  /\ evaluated' = << >>
  /\ UNCHANGED << interactions, initialParameters, noSkipDefined, results, index,
                  included, pass, displayed, accepted, skipped, rollback >>
  /\ CallerData

\* reAskQuestion with a retry budget: the engine gives up on the operator
\* after MaxCount warnings
reAskQuestionBudget(again) ==
  IF warnings = MaxCount
    THEN /\ pc' = "error"
         /\ UNCHANGED << interactions, results, index, included, defaultValue,
                         prompts, warnings >>
    ELSE /\ interactions' = again
         /\ warnings' = Inc(warnings, MaxCount)
         /\ prompts' = Inc(prompts, MaxCount)
         /\ defaultValue' = promptDefault(again[index])
         /\ UNCHANGED << results, pc, index, included >>

\* reAskQuestion: the issue is written as a warning and #askQuestion is
\* called again for the same question, however many warnings came before.
\* again is the action list as the failed attempt leaves it.
reAskQuestion(again) ==
  /\ interactions' = again
  /\ warnings' = Inc(warnings, MaxCount)
  /\ prompts' = Inc(prompts, MaxCount)
  /\ defaultValue' = promptDefault(again[index])
  /\ UNCHANGED << results, pc, index, included >>

\* #askQuestion that takes every line as an answer, its issue ignored
AnswerUnverified(line) ==
  /\ pc = "ask"
  /\ LET q == Action
         type == translateType(q.type)
         anAnswer == IF line = "-" THEN Undef ELSE StrV(line)
         read == [interactions EXCEPT ![index].rawAnswer = anAnswer]
         r == verifyAnswerForm(type, anAnswer, q)
         value == IF line = "" THEN defaultValue ELSE r.value
     IN /\ Continue(addResult([read EXCEPT ![index].disposition = ANSWERED],
                              results, ActionRef(index), value))
        /\ UNCHANGED << prompts, warnings >>
  /\ lastRead' = line
  /\ evaluated' = << >>
  /\ UNCHANGED << initialParameters, noSkipDefined, pass, asked, displayed,
                  accepted, skipped, rollback >>
  /\ CallerData

\* #askQuestion, splitAnswers: the answers in the line read.  answer is
\* undefined after '-', and answer.split then throws a TypeError, as does
\* new RegExp for an invalid source.
splitAnswers(q, line) ==
  IF q.multiValue
    THEN IF line = "-" \/ ~split(line, q.separator).valid
           THEN [thrown |-> TRUE, answers |-> << >>]
           ELSE [thrown |-> FALSE, answers |-> split(line, q.separator).answers]
    ELSE [thrown |-> FALSE,
          answers |-> << IF line = "-" THEN Undef ELSE StrV(line) >>]

\* the options of a selection without an upper bound
selectionUnbounded(q) ==
  [required |-> TRUE, max |-> NoMax, min |-> IF q.required = TRUE THEN 1 ELSE 0]

\* #askQuestion, "it's an options question": the options verifyAnswerForm
\* is given besides the type Integer and the input
selectionOptions(q) ==
  [required |-> TRUE, max |-> Len(q.options),
   min |-> IF q.required = TRUE THEN 1 ELSE 0]

\* #askQuestion, the loop over splitAnswers from answer i on: the values of
\* the answers ("good"), or what stopped the loop at the first answer that
\* is empty without a default ("noDefault") or that has an issue ("issue")
RECURSIVE answerValues(_, _, _, _)
answerValues(q, dflt, answers, i) ==
  IF i > Len(answers) THEN [kind |-> "good", values |-> << >>]
  ELSE LET anAnswer == answers[i]
           rest == answerValues(q, dflt, answers, i + 1)
           push(value) == IF rest.kind = "good"
                            THEN [kind |-> "good", values |-> << value >> \o rest.values]
                            ELSE rest
           stop(kind) == [kind |-> kind, values |-> << >>]
       IN IF anAnswer = StrV("")
            THEN IF dflt # Undef THEN push(dflt) ELSE stop("noDefault")
          ELSE IF q.options = << >>
            THEN LET r == verifyAnswerForm(translateType(q.type), anAnswer, q)
                 IN IF r.ok THEN push(r.value) ELSE stop("issue")
          ELSE LET r == verifyAnswerForm("Integer", anAnswer, selectionOptions(q))
               IN IF ~r.ok THEN stop("issue")
                  ELSE push(option(q, [ok |-> TRUE, n |-> r.value.n]))

\* a reading of the line that leaves the previous answer in place at '-'
rawAnswerKept(q, line) ==
  IF line = "-" THEN q.rawAnswer ELSE StrV(line)

\* #askQuestion, the line read: '-' deletes q.rawAnswer, any other line is
\* stored as q.rawAnswer
rawAnswerOf(q, line) ==
  IF line = "-" THEN Undef ELSE StrV(line)

\* #askQuestion from the line read on: the answer is recorded, or
\* reAskQuestion writes a warning and asks the question again
Answer(line) ==
  /\ pc = "ask"
  /\ LET q == Action
         read == [interactions EXCEPT ![index].rawAnswer = rawAnswerOf(q, line)]
         parts == splitAnswers(q, line)
         got == answerValues(q, defaultValue, parts.answers, 1)
         value == IF q.multiValue = TRUE THEN ArrV(got.values) ELSE got.values[1]
         again == IF got.kind = "noDefault" THEN read
                  ELSE [read EXCEPT ![index].rawAnswer = Undef]
     IN IF parts.thrown
          THEN /\ Throw([interactions |-> read, results |-> results])
               /\ UNCHANGED << prompts, warnings >>
        ELSE IF got.kind = "good"
          THEN /\ Continue(addResult([read EXCEPT ![index].disposition = ANSWERED],
                                     results, ActionRef(index), value))
               /\ UNCHANGED << prompts, warnings >>
          ELSE reAskQuestion(again)
  /\ lastRead' = line
  /\ evaluated' = << >>
  /\ UNCHANGED << initialParameters, noSkipDefined, pass, asked, displayed,
                  accepted, skipped, rollback >>
  /\ CallerData

\* #askQuestion from the line read on, for the lines typed at a question
\* with options or with several values
AnswerList(line) ==
  /\ pc = "ask"
  /\ Action.options # << >> \/ Action.multiValue = TRUE
  /\ Answer(line)

\* `map.type === BooleanString`: the type token of a mapping entry, a string,
\* compared with the type function: they are never the same value
isBooleanString(token) == FALSE

\* #processMapping, the body of the forEach over 'maps' for entry m.  st
\* carries the action list, the result list, whether an exception was thrown
\* and the calls of the Evaluator made for the sources.
mapEntry(st, a, m) ==
  LET map == st.interactions[a].maps[m]
      type == translateType(map.type)
      params == evalParams(st.interactions, st.results)
      throw == [st EXCEPT !.thrown = TRUE]
      record(from, value) ==
        LET added == addResult(st.interactions, st.results, MapRef(a, m), value)
        IN [from EXCEPT !.interactions = added.interactions,
                        !.results = added.results]
      call(by) == [st EXCEPT !.calls = Append(@, [source |-> map.source, by |-> by])]
  IN IF type = UnknownType THEN throw
     ELSE IF map.source # ""
       THEN IF type \notin {"BooleanString", "Integer", "Numeric"} THEN throw
            ELSE IF isBooleanString(map.type)
              THEN LET e == evalTruth(map.source, params)
                       r == verifyAnswerForm(type,
                              StrV(IF e.b THEN "true" ELSE "false"), NoOptions)
                   IN IF ~e.ok \/ ~r.ok THEN [call("evalTruth") EXCEPT !.thrown = TRUE]
                      ELSE record(call("evalTruth"), r.value)
            ELSE LET e == evalNumber(map.source, params)
                     r == verifyAnswerForm(type, StrV(intToString(e.n)), NoOptions)
                 IN IF ~e.ok \/ ~r.ok THEN [call("evalNumber") EXCEPT !.thrown = TRUE]
                    ELSE record(call("evalNumber"), r.value)
     ELSE IF map.value # Undef
       THEN LET r == verifyAnswerForm(type, StrV(toString(map.value)), map)
            IN IF ~r.ok THEN throw
               ELSE record(st, r.value)
     ELSE throw

\* #processMapping, the forEach over 'maps' from entry m on: an exception
\* ends it
RECURSIVE mapEntries(_, _, _)
mapEntries(st, a, m) ==
  IF m > Len(st.interactions[a].maps) \/ st.thrown THEN st
  ELSE CHOOSE out \in {mapEntries(next, a, m + 1) : next \in {mapEntry(st, a, m)}} : TRUE

\* #processActions, "it's a mapping": #processMapping
ProcessMapping ==
  /\ Executes
  /\ Action.prompt = "" /\ Action.maps # <<>>
  /\ LET st == mapEntries([interactions |-> interactions, results |-> results,
                           thrown |-> FALSE, calls |-> << >>], index, 1)
     IN /\ IF st.thrown THEN Throw(st) ELSE Continue(st)
        /\ evaluated' = st.calls
  /\ Quiet /\ UNCHANGED skipped
  /\ CallerData

\* #processActions, "it's a statement"
WriteStatement ==
  /\ Executes
  /\ Action.prompt = "" /\ Action.maps = <<>> /\ Action.statement # ""
  /\ Continue(State)
  /\ Quiet /\ UNCHANGED skipped
  /\ evaluated' = << >>
  /\ CallerData

\* #processReview, the loop that gathers the items to review: the items of
\* the actions k, k + 1, ... before the review action a
RECURSIVE reviewIncluded(_, _, _, _)
reviewIncluded(ints, res, a, k) ==
  IF k >= a THEN << >>
  ELSE LET action == ints[k]
           rest == reviewIncluded(ints, res, a, k + 1)
           include ==
             /\ action.statement = ""
             /\ (ints[a].review = "all" \/ action.prompt # "")
             /\ ~(getResultByIndex(res, k) /\ endsWithSkipped(action.disposition))
       IN IF action.review # ""
            THEN rest  \* included.slice(0, included.length) changes nothing
          ELSE IF include /\ action.prompt # "" THEN << ActionRef(k) >> \o rest
          ELSE IF include /\ action.maps # <<>>
            THEN [m \in 1..Len(action.maps) |-> MapRef(k, m)] \o rest
          ELSE rest

\* #processActions after a review that #processReview reports as accepted
\* (result === true)
Accepted ==
  IF Action.parameter # "undefined"
    THEN Continue(addResult(interactions, results, ActionRef(index), BoolV(TRUE)))
    ELSE Continue(State)

\* a review that is displayed whatever it holds
ProcessReviewShown ==
  /\ Executes
  /\ Action.prompt = "" /\ Action.maps = <<>> /\ Action.statement = ""
  /\ Action.review # ""
  /\ pc' = "review"
  /\ included' = reviewIncluded(interactions, results, index, 1)
  /\ displayed' = displayed \cup {index}
  /\ UNCHANGED << interactions, results, index, defaultValue >>
  /\ prompts' = 0
  /\ warnings' = 0
  /\ lastRead' = NoLine
  /\ evaluated' = << >>
  /\ UNCHANGED << initialParameters, noSkipDefined, pass, asked, accepted,
                  skipped, rollback >>
  /\ CallerData

\* #processActions, "it's a review": #processReview gathers the items, and
\* if there are any displays them and waits for the verification
ProcessReview ==
  /\ Executes
  /\ Action.prompt = "" /\ Action.maps = <<>> /\ Action.statement = ""
  /\ Action.review # ""
  /\ LET items == reviewIncluded(interactions, results, index, 1)
     IN IF items = << >>
          THEN Accepted /\ UNCHANGED displayed
          ELSE /\ pc' = "review"
               /\ included' = items
               /\ displayed' = displayed \cup {index}
               /\ UNCHANGED << interactions, results, index, defaultValue >>
  /\ prompts' = 0
  /\ warnings' = 0
  /\ lastRead' = NoLine
  /\ evaluated' = << >>
  /\ UNCHANGED << initialParameters, noSkipDefined, pass, asked, accepted,
                  skipped, rollback >>
  /\ CallerData

\* a rollback that removes every result
nixedAll(ints, res, items) == << >>

\* the rollback of a rejected review: the results of the parameters of the
\* reviewed items are removed
nixed(ints, res, items) ==
  LET toNix == {parameterOf(ints, items[k]) : k \in 1..Len(items)}
      keep(ref) == parameterOf(ints, ref) \notin toNix
  IN SelectSeq(res, keep)

\* a review whose rejection is not acted on: after 'no' #processActions goes
\* on with the next action
VerifyGoesOn(line) ==
  /\ pc = "review"
  /\ LET r == verifyAnswerForm("BooleanString", StrV(line), NoOptions)
     IN IF ~r.ok
          THEN /\ warnings' = Inc(warnings, MaxCount)
               /\ UNCHANGED << interactions, results, pc, index, defaultValue,
                               included, accepted >>
          ELSE /\ IF r.value = BoolV(TRUE) THEN Accepted ELSE Continue(State)
               /\ accepted' = IF r.value = BoolV(TRUE) THEN accepted \cup {index}
                                                       ELSE accepted
               /\ UNCHANGED warnings
  /\ lastRead' = line
  /\ evaluated' = << >>
  /\ UNCHANGED << initialParameters, noSkipDefined, prompts, pass, asked,
                  displayed, skipped, rollback >>
  /\ CallerData

\* a verification that finds no issue in any line
verifiedAny(line) ==
  LET r == verifyAnswerForm("BooleanString", StrV(line), NoOptions)
  IN [ok |-> TRUE, value |-> r.value]

\* #processReview, the confirmation loop: the line read is verified as a
\* BooleanString
verified(line) == verifyAnswerForm("BooleanString", StrV(line), NoOptions)

\* #processReview from the line read on, and what #processActions does with
\* the result: a line that is no yes / no is asked for again, 'yes' goes on
\* with the next action, 'no' rolls back and starts #processActions again
Verify(line) ==
  /\ pc = "review"
  /\ LET r == verified(line)
     IN IF ~r.ok
          THEN /\ warnings' = Inc(warnings, MaxCount)
               /\ UNCHANGED << interactions, results, pc, index, defaultValue,
                               included, pass, asked, displayed, accepted,
                               skipped, rollback >>
        ELSE IF r.value = BoolV(FALSE)
          THEN /\ pass < MaxPass
               /\ results' = nixed(interactions, results, included)
               /\ pc' = "run"
               /\ index' = 1
               /\ pass' = pass + 1
               /\ included' = << >>
               /\ asked' = {}
               /\ displayed' = {}
               /\ accepted' = {}
               /\ skipped' = {}
               /\ rollback' =
                    [by |-> index,
                     rejected |-> {parameterOf(interactions, included[k]) :
                                     k \in 1..Len(included)},
                     accepted |-> accepted,
                     resolved |-> {p \in ParameterNames :
                                     LET k == getResult(interactions, results, p)
                                     IN k # 0 /\ valueOf(interactions, results[k]) # Undef},
                     get |-> [p \in ParameterNames |-> get(interactions, results, p)]]
               /\ UNCHANGED << interactions, defaultValue, warnings >>
        ELSE /\ IF r.value = BoolV(TRUE) THEN Accepted ELSE Continue(State)
             /\ accepted' = IF r.value = BoolV(TRUE) THEN accepted \cup {index}
                                                     ELSE accepted
             /\ UNCHANGED << pass, asked, displayed, skipped, rollback, warnings >>
  /\ lastRead' = line
  /\ evaluated' = << >>
  /\ UNCHANGED << initialParameters, noSkipDefined, prompts >>
  /\ CallerData

Next ==
  \/ constructor
  \/ question
  \/ ConditionSkip
  \/ DefinedSkip
  \/ AskQuestion
  \/ \E line \in Lines : Answer(line)
  \/ \E line \in ListLines : AnswerList(line)
  \/ ProcessMapping
  \/ WriteStatement
  \/ ProcessReview
  \/ \E line \in Lines : Verify(line)

Spec == Init /\ [][Next]_vars

\* the steps the engine takes by itself
Engine ==
  \/ constructor
  \/ question
  \/ ConditionSkip
  \/ DefinedSkip
  \/ AskQuestion
  \/ ProcessMapping
  \/ WriteStatement
  \/ ProcessReview

\* a Questioner without the noSkipDefined option, of an action list the
\* constructor accepts
LiveInit ==
  /\ Init
  /\ noSkipDefined = FALSE
  /\ caller.supplied = "array"
  /\ verifyInterrogationBundle(caller.interactions)

\* the engine runs whenever it can, and the operator ends up giving a valid
\* answer to a question that keeps being asked and 'yes' to a review that
\* keeps being displayed
LiveSpec ==
  /\ LiveInit
  /\ [][Next]_vars
  /\ WF_vars(Engine)
  /\ SF_vars(Answer("12"))
  /\ SF_vars(Answer("1"))
  /\ SF_vars(Verify("yes"))

\* the accessors that return an object
Accessors == {"getResult", "interactions", "results", "values"}

\* what the caller writes into an object it got from an accessor
Mutated == StrV("mutated")

\* the caller has not yet written into an object of the engine
Untouched ==
  \A a \in DOMAIN interactions :
    /\ interactions[a].value # Mutated
    /\ \A m \in 1..Len(interactions[a].maps) : interactions[a].maps[m].value # Mutated

\* After question() the caller gets an object from an accessor and assigns
\* to its 'value' (for 'interactions' and 'results': of the first element,
\* for 'values': of a parameter).  getResult returns the element of
\* #results itself, which is the action or mapping entry object, and
\* 'interactions' returns #interactions itself; 'results' returns a
\* structuredClone and 'values' a new object.
MutateReturned(accessor) ==
  /\ pc = "done"
  /\ Untouched
  /\ CASE accessor = "getResult" ->
            \E p \in ParameterNames :
              LET k == getResult(interactions, results, p)
              IN /\ k # 0
                 /\ interactions' =
                      addResult(interactions, results, results[k], Mutated).interactions
       [] accessor = "interactions" ->
            /\ interactions # << >>
            /\ interactions' = [interactions EXCEPT ![1].value = Mutated]
       [] accessor \in {"results", "values"} ->
            UNCHANGED interactions
  /\ UNCHANGED << initialParameters, noSkipDefined, results, pc, index,
                  defaultValue, included, pass, prompts, warnings, asked,
                  displayed, accepted, skipped, lastRead,
                  evaluated, rollback >>
  /\ CallerData

NextAccess ==
  \/ Next
  \/ \E accessor \in Accessors : MutateReturned(accessor)

\* the engine, and a caller that writes into what the accessors return
AccessSpec == Init /\ [][NextAccess]_vars

(* ----------------------------------------------------------------------- *)
(* Properties                                                              *)
(* ----------------------------------------------------------------------- *)

\* the engine runs the bundle ib
Runs(ib) ==
  /\ pc \notin {"new", "invalid"}
  /\ caller.interactions = ib

Get(parameter) == get(interactions, results, parameter)

Has(parameter) == has(interactions, results, parameter)

\* the pass under way was started by the rejection of the second review of
\* reviewsIB, after the first review was answered 'yes'
SecondReviewRejected ==
  /\ Runs(reviewsIB)
  /\ initialParameters = NoParameters
  /\ noSkipDefined = FALSE
  /\ pass = 2
  /\ rollback.by = 4
  /\ 2 \in rollback.accepted

\* C1: with [Q1(V1), Review, Q2(V2), Review] and no initial parameters, once
\* the first review was accepted and the second is rejected, the restarted
\* pass does not prompt Q1 again and V1 keeps its value, and Q2 is prompted
\* again.
C1_OnlyV2Reprompted ==
  SecondReviewRejected =>
    /\ 1 \notin asked
    /\ Get("V1") = rollback.get["V1"]
    /\ (pc = "done" => 3 \in asked)

\* the review action nearest before action a, 0 if there is none
previousReview(a) ==
  LET reviews == {k \in 1..(a - 1) : interactions[k].review # ""}
  IN IF reviews = {} THEN 0 ELSE CHOOSE k \in reviews : \A h \in reviews : h <= k

\* C2: the items a review displays and returns come from actions after the
\* nearest review before it and before the review itself.
C2_ReviewWindow ==
  pc = "review" =>
    \A k \in 1..Len(included) :
      /\ included[k].a > previousReview(index)
      /\ included[k].a < index

\* the questions whose parameter had a resolved value that the last
\* rejection did not discard
KeptQuestions ==
  {a \in DOMAIN interactions :
     /\ interactions[a].prompt # ""
     /\ interactions[a].parameter \notin rollback.rejected
     /\ interactions[a].parameter \in rollback.resolved}

soleSource(a) ==
  \A b \in DOMAIN interactions :
    /\ (b # a => interactions[b].parameter # interactions[a].parameter)
    /\ \A m \in 1..Len(interactions[b].maps) :
         interactions[b].maps[m].parameter # interactions[a].parameter

C4_OneResultPerParameter ==
  \A k, h \in 1..Len(results) :
    k # h => parameterOf(interactions, results[k]) # parameterOf(interactions, results[h])

\* the answer of the operator to question a was 'yes'
AnsweredYes(a) ==
  interactions[a].disposition = ANSWERED /\ interactions[a].rawAnswer = StrV("yes")

\* C5: a mapping entry with a condition is recorded only if its condition
\* holds: with [IS_CLIENT bool question, maps ORG 'us' if IS_CLIENT, ORG
\* 'them' if !IS_CLIENT] and the answer "yes", question() ends with
\* values.IS_CLIENT = true and values.ORG = "us".
C5_SubMapCondition ==
  (Runs(subMapIB) /\ pc = "done" /\ AnsweredYes(1)) =>
    LET vals == values(interactions, results)
    IN /\ "IS_CLIENT" \in DOMAIN vals /\ vals["IS_CLIENT"] = BoolV(TRUE)
       /\ "ORG" \in DOMAIN vals /\ vals["ORG"] = StrV("us")

\* the parameters of action a: its own if it is a question, those of its
\* entries if it is a mapping
parametersOf(a) ==
  IF interactions[a].prompt # "" THEN {interactions[a].parameter}
  ELSE {interactions[a].maps[m].parameter : m \in 1..Len(interactions[a].maps)}

\* some result of parameter p comes from an action other than a
resolvedElsewhere(a, p) ==
  \E k \in 1..Len(results) :
    results[k].a # a /\ parameterOf(interactions, results[k]) = p

\* C6: after question(), a question or mapping whose condition was false and
\* that has neither elseValue nor elseSource leaves its parameter without a
\* value (unless initialParameters or another action supplies it).
C6_SkipYieldsNoValue ==
  pc = "done" =>
    \A a \in skipped :
      (/\ interactions[a].prompt # "" \/ interactions[a].maps # << >>
       /\ interactions[a].elseValue = Undef /\ interactions[a].elseSource = "") =>
        \A p \in parametersOf(a) :
          (p \notin DOMAIN initialParameters /\ ~resolvedElsewhere(a, p)) =>
            ~Has(p) /\ Get(p) = Undef

\* the value a valid initial value v is coerced to by the type of question q
coerced(q, v) == verifyAnswerForm(translateType(q.type), StrV(toString(v)), q)

\* C7: a question whose parameter is in initialParameters with a value valid
\* for its type, noSkipDefined being false for the Questioner and the
\* question, is never prompted; after question(), get() is the coerced
\* initial value and the disposition of the result is 'defined-skipped'.
C7_DefinedSkip ==
  \A a \in DOMAIN interactions :
    LET q == interactions[a]
        p == q.parameter
    IN (/\ q.prompt # ""
        /\ p \in DOMAIN initialParameters
        /\ coerced(q, initialParameters[p]).ok
        /\ coerced(q, initialParameters[p]).value # Undef
        /\ noSkipDefined = FALSE /\ q.noSkipDefined = FALSE) =>
         /\ a \notin asked
         /\ pc = "done" =>
              /\ Get(p) = coerced(q, initialParameters[p]).value
              /\ getResult(interactions, results, p) # 0
              /\ interactions[results[getResult(interactions, results, p)].a].disposition
                   = "defined-skipped"

\* the line is a valid answer to question q, whose default is dflt
validOne(q, answer, dflt) ==
  IF answer = "" THEN dflt # Undef
  ELSE IF q.options # << >>
    THEN /\ answer \in Numerals
         /\ NumeralValue(answer) \in (IF q.required THEN 1 ELSE 0)..Len(q.options)
  ELSE verifyAnswerForm(translateType(q.type),
                        IF answer = "-" THEN Undef ELSE StrV(answer), q).ok

\* the answers in a line typed at question q: the line, or for a question
\* with several values what is between the separators
answersIn(q, line) ==
  IF q.multiValue
    THEN [i \in DOMAIN split(line, q.separator).answers |->
            split(line, q.separator).answers[i].s]
    ELSE << line >>

\* '-' at a question with several values: #askQuestion splits undefined and
\* question() ends with a TypeError
unsetThrows(q, line) == q.multiValue /\ line = "-"

validAnswer(q, line, dflt) ==
  /\ ~unsetThrows(q, line)
  /\ \A i \in DOMAIN answersIn(q, line) : validOne(q, answersIn(q, line)[i], dflt)

\* the value a valid line gives question q, whose default is dflt
oneValue(q, answer, dflt) ==
  IF answer = "" THEN dflt
  ELSE IF q.options # << >>
    THEN IF NumeralValue(answer) = 0 THEN Undef
         ELSE StrV(q.options[NumeralValue(answer)])
  ELSE verifyAnswerForm(translateType(q.type),
                        IF answer = "-" THEN Undef ELSE StrV(answer), q).value

answerValue(q, line, dflt) ==
  IF q.multiValue
    THEN ArrV([i \in DOMAIN answersIn(q, line) |->
                 oneValue(q, answersIn(q, line)[i], dflt)])
    ELSE oneValue(q, line, dflt)

\* a step taken while a question waits for its answer either stays at the
\* question, after an invalid line and with one more warning and one more
\* prompt, or records the value of a valid line as the result of the question
AskStep ==
  pc = "ask" =>
    IF unsetThrows(Action, lastRead')
      THEN pc' = "error" /\ results' = results
    ELSE IF pc' = "ask"
      THEN /\ ~validAnswer(Action, lastRead', defaultValue)
           /\ index' = index /\ results' = results
           /\ warnings' = Inc(warnings, MaxCount)
           /\ prompts' = Inc(prompts, MaxCount)
      ELSE /\ validAnswer(Action, lastRead', defaultValue)
           /\ results' = Append(results, ActionRef(index))
           /\ interactions'[index].disposition = ANSWERED
           /\ interactions'[index].value = answerValue(Action, lastRead', defaultValue)
           /\ warnings' = warnings /\ prompts' = prompts
           /\ pc' \in {"run", "done"}

\* C8: a question answered with k invalid lines and then a valid one gives
\* one result, holding the value of the valid line, after k warnings and
\* k + 1 prompts, and no later action is processed before that result is
\* recorded.  (Counted up to MaxCount; the one-question bundle is retryIB,
\* an integer of at least 10.)
C8_RetryUntilValid ==
  /\ [](pc = "ask" => prompts = Inc(warnings, MaxCount))
  /\ []((Runs(retryIB) /\ 1 \in asked /\ pc \in {"run", "done"}) =>
          /\ results = << ActionRef(1) >>
          /\ interactions[1].value \in {Undef, IntV(12)}
          /\ (index = 2 /\ pc = "run") => prompts = Inc(warnings, MaxCount))
  /\ [][AskStep]_vars

\* the question of retryIB is answered after MaxCount or more invalid lines
\* and a valid one
C8_Witness ==
  /\ Runs(retryIB) /\ pc = "run" /\ index = 2
  /\ warnings = MaxCount /\ prompts = MaxCount
  /\ results = << ActionRef(1) >>
  /\ interactions[1].value = IntV(12)

\* the line reads as a yes / as a no
readsTrue(line) ==
  verifyAnswerForm("BooleanString", StrV(line), NoOptions) = [ok |-> TRUE, value |-> BoolV(TRUE)]

readsFalse(line) ==
  verifyAnswerForm("BooleanString", StrV(line), NoOptions) = [ok |-> TRUE, value |-> BoolV(FALSE)]

\* a rejection starts a new pass at the first action, without the results of
\* the parameters of the included items
RejectionRestarts ==
  (pc = "review" /\ readsFalse(lastRead')) =>
    /\ pc' = "run" /\ index' = 1 /\ pass' = pass + 1
    /\ \A k \in 1..Len(results') :
         \A h \in 1..Len(included) :
           parameterOf(interactions, results'[k]) # parameterOf(interactions, included[h])

ReviewPassed ==
  (pc = "review" /\ pc' # "review" /\ pass' = pass) =>
    /\ readsTrue(lastRead') \/ lastRead' = ""
    /\ readsTrue(lastRead') <=> accepted' = accepted \cup {index}
    /\ results' \in {results, Append(results, ActionRef(index))}
    /\ IF index = Len(interactions) THEN pc' = "done" /\ index' = index
                                    ELSE pc' = "run" /\ index' = index + 1

NoBudget ==
  /\ (pc \in {"ask", "review"} /\ pc' = "error") =>
       (pc = "ask" /\ unsetThrows(Action, lastRead'))
  /\ (pc = "ask" /\ ~unsetThrows(Action, lastRead')
        /\ ~validAnswer(Action, lastRead', defaultValue)) => pc' = "ask"
  /\ (pc = "review" /\ ~readsTrue(lastRead') /\ ~readsFalse(lastRead')
        /\ lastRead' # "") => pc' = "review"

AtQuestion ==
  /\ pc = "run"
  /\ Action.prompt # ""
  /\ Condition.ok /\ Condition.b
  /\ translateType(Action.type) # UnknownType

\* the step taken at such a question prompts it, unless no noSkipDefined
\* flag is true and the parameter has a value: then it is not prompted
DefinedSkipRule ==
  AtQuestion =>
    IF noSkipDefined # TRUE /\ Action.noSkipDefined # TRUE /\ Has(Action.parameter)
      THEN /\ pc' # "ask" /\ asked' = asked
           /\ pc' # "error" => interactions'[index].disposition = DEFINED_SKIPPED
      ELSE /\ pc' = "ask" /\ asked' = asked \cup {index}

\* C11: a question whose condition is absent or holds is defined-skipped,
\* and so not prompted, exactly if noSkipDefined is true neither for the
\* Questioner nor for the question and has(parameter) is true, whatever the
\* value and wherever it comes from; otherwise it is prompted.
C11_DefinedSkipIff == [][DefinedSkipRule]_vars

\* the second question of doubleQuestionIB was defined-skipped because the
\* first one was answered 'no'
C11_Witness ==
  /\ Runs(doubleQuestionIB) /\ pc = "done"
  /\ initialParameters = NoParameters /\ noSkipDefined = FALSE
  /\ interactions[1].disposition = ANSWERED
  /\ interactions[1].value = BoolV(FALSE)
  /\ interactions[2].disposition = DEFINED_SKIPPED
  /\ asked = {1, 3}

\* the number of results of parameter p in the result list res
resultsOf(ints, res, p) ==
  Cardinality({k \in 1..Len(res) : parameterOf(ints, res[k]) = p})

\* C12: the step taken at a mapping action records no new result for a
\* parameter that already has a value, unless noSkipDefined is true for the
\* action or the Questioner.
C12_MapDefinedSkip ==
  [][(/\ pc = "run"
      /\ Action.prompt = "" /\ Action.maps # << >>
      /\ noSkipDefined # TRUE /\ Action.noSkipDefined # TRUE) =>
       \A p \in ParameterNames :
         Has(p) => resultsOf(interactions', results', p) = resultsOf(interactions, results, p)]_vars

\* C13: what the caller does with an object returned by getResult, values,
\* results or interactions changes nothing of what get, has, values and
\* interactions return afterwards.
C13_DefensiveCopies ==
  [][pc = "done" =>
       /\ \A p \in ParameterNames : Get(p)' = Get(p) /\ Has(p)' = Has(p)
       /\ values(interactions, results)' = values(interactions, results)
       /\ interactions' = interactions]_vars

\* C14: no step of the constructor or of question() changes the action list
\* the caller passed, which the engine never shares, or the caller's
\* initialParameters.
C14_CallerUntouched ==
  /\ [](~shared)
  /\ [][caller' = caller /\ initialParameters' = initialParameters]_vars

\* question() is over after a rejection and a restart: the engine's actions
\* carry a disposition, a value and a raw answer, the caller's do not
C14_Witness ==
  /\ pc = "done" /\ pass > 1
  /\ \E a \in DOMAIN interactions :
       /\ interactions[a].disposition = ANSWERED
       /\ interactions[a].value # Undef
       /\ interactions[a].rawAnswer # Undef
       /\ caller.interactions[a].disposition = ""
       /\ caller.interactions[a].value = Undef
       /\ caller.interactions[a].rawAnswer = Undef

\* the discriminator fields an action sets
discriminators(action) ==
  {f \in {"prompt", "maps", "statement", "review"} :
     CASE f = "prompt" -> action.prompt # ""
       [] f = "maps" -> action.maps # << >>
       [] f = "statement" -> action.statement # ""
       [] OTHER -> action.review # ""}

\* C15: once the constructor has returned, every action of the list it was
\* given sets exactly one of prompt, maps, statement and review (a list with
\* an action of zero or several kinds is rejected).
C15_ExactlyOneKind ==
  pc \notin {"new", "invalid"} =>
    \A a \in DOMAIN caller.interactions :
      Cardinality(discriminators(caller.interactions[a])) = 1

\* C16: once the constructor has returned, every mapping entry of the list it
\* was given names a parameter and sets exactly one of source and value.
C16_MappingEntryForm ==
  pc \notin {"new", "invalid"} =>
    \A a \in DOMAIN caller.interactions :
      \A m \in DOMAIN caller.interactions[a].maps :
        LET map == caller.interactions[a].maps[m]
        IN /\ map.parameter # "undefined"
           /\ (map.source # "") # (map.value # Undef)

\* the type tokens that are one of the seven names, compared in lower case
recognised(type) ==
  toLowerCase(type) \in
    {"string", "bool", "boolean", "int", "integer", "float", "numeric"}

\* the type tokens set on the questions and mapping entries of a list
typeTokens(ints) ==
  ({ints[a].type : a \in {i \in DOMAIN ints : ints[i].prompt # ""}}
     \cup UNION {{ints[a].maps[m].type : m \in DOMAIN ints[a].maps} : a \in DOMAIN ints})
    \ {""}

\* the list with the type tokens of its actions taken out
untyped(ints) == [a \in DOMAIN ints |-> [ints[a] EXCEPT !.type = ""]]

\* C17: for a list with nothing else wrong, the constructor returns if and
\* only if every type token on a question or mapping entry is, in lower case,
\* one of string, bool, boolean, int, integer, float, numeric.
C17_TypeTokenIff ==
  (/\ pc # "new"
   /\ caller.supplied = "array"
   /\ verifyInterrogationBundle(untyped(caller.interactions)))
    => (pc # "invalid" <=> \A t \in typeTokens(caller.interactions) : recognised(t))

\* C18: once the constructor has returned, no mapping entry of the list it was
\* given has a source together with a type other than boolean, integer or
\* numeric (an absent type being string).
C18_SourceTypeAtConstruction ==
  pc \notin {"new", "invalid"} =>
    \A a \in DOMAIN caller.interactions :
      \A m \in DOMAIN caller.interactions[a].maps :
        LET map == caller.interactions[a].maps[m]
        IN map.source # "" =>
             translateType(map.type) \in {"BooleanString", "Integer", "Numeric"}

\* C19: question() completes only for a Questioner that was given an action
\* list with at least one action.
C19_NoEmptyRun ==
  pc = "done" => caller.supplied = "array" /\ caller.interactions # << >>

\* the value the parameter of the action has fails the type of the action
FailsType(action, current) ==
  /\ translateType(action.type) # UnknownType
  /\ current # Undef
  /\ ~verifyAnswerForm(translateType(action.type), StrV(toString(current)), action).ok

\* the engine is at a question that is defined-skipped thanks to a value
\* of initialParameters that fails the type of the question
AtBadDefinedSkip ==
  /\ pc = "run"
  /\ Action.prompt # ""
  /\ Condition.ok /\ Condition.b
  /\ noSkipDefined # TRUE /\ Action.noSkipDefined # TRUE
  /\ Action.parameter \in DOMAIN initialParameters
  /\ resultsOf(interactions, results, Action.parameter) = 0
  /\ FailsType(Action, initialParameters[Action.parameter])

AtFalseCondition ==
  /\ pc = "run"
  /\ Action.prompt # ""
  /\ Action.condition # ""
  /\ Condition.ok /\ ~Condition.b

\* the substitute value of the question: elseValue, coerced through the type
\* when it is a string, else elseSource evaluated, else undefined
substitute(q) ==
  LET type == translateType(q.type)
      params == evalParams(interactions, results)
  IN IF q.elseValue # Undef
       THEN IF q.elseValue.kind = "str"
              THEN verifyAnswerForm(type, q.elseValue, q).value
              ELSE q.elseValue
     ELSE IF q.elseSource # ""
       THEN IF type = "BooleanString"
              THEN BoolV(evalTruth(q.elseSource, params).b)
              ELSE IntV(evalNumber(q.elseSource, params).n)
     ELSE Undef

\* C21: the step taken at a question whose condition is false prompts
\* nothing and, unless it throws, marks the question condition-skipped and
\* records its substitute value: elseValue (the scalar it is coerced to when
\* it is a string), else elseSource evaluated as a boolean for a boolean type
\* and as a number otherwise; get() of the parameter then sees that value
\* unless an earlier result of the parameter has one.
C21_ConditionSkipValue ==
  [][AtFalseCondition =>
       /\ pc' # "ask" /\ asked' = asked /\ prompts' = 0
       /\ pc' # "error" =>
            /\ interactions'[index].disposition = CONDITION_SKIPPED
            /\ interactions'[index].value = substitute(Action)
            /\ results' = Append(results, ActionRef(index))]_vars

\* a question with options waits for a line; the line typed has no empty
\* answer and is not '-' at a question with several values
AtSelection ==
  /\ pc = "ask"
  /\ Action.options # << >>
  /\ ~unsetThrows(Action, lastRead')
  /\ \A i \in DOMAIN answersIn(Action, lastRead') : answersIn(Action, lastRead')[i] # ""

\* every answer of the line is a number from lo to the number of options
selects(q, line, lo) ==
  \A i \in DOMAIN answersIn(q, line) :
    /\ answersIn(q, line)[i] \in Numerals
    /\ NumeralValue(answersIn(q, line)[i]) \in lo..Len(q.options)

\* the options the numbers of the line stand for, undefined for 0
selected(q, line) ==
  [i \in DOMAIN answersIn(q, line) |->
     IF NumeralValue(answersIn(q, line)[i]) = 0 THEN Undef
     ELSE StrV(q.options[NumeralValue(answersIn(q, line)[i])])]

\* a line whose answers are numbers from lo on records the options they
\* stand for; any other line records nothing, writes a warning and prompts
\* the question again
SelectionRule(lo) ==
  IF selects(Action, lastRead', lo)
    THEN /\ pc' \in {"run", "done"}
         /\ results' = Append(results, ActionRef(index))
         /\ interactions'[index].value =
              IF Action.multiValue THEN ArrV(selected(Action, lastRead'))
                                   ELSE selected(Action, lastRead')[1]
    ELSE /\ pc' = "ask" /\ index' = index
         /\ results' = results
         /\ warnings' = Inc(warnings, MaxCount)
         /\ prompts' = Inc(prompts, MaxCount)

\* the values of the answered questions with options are all of the set
SelectionsIn(extra) ==
  \A a \in DOMAIN interactions :
    (interactions[a].options # << >> /\ interactions[a].disposition = ANSWERED
       /\ getResultByIndex(results, a)) =>
      LET q == interactions[a]
          allowed == {StrV(q.options[i]) : i \in DOMAIN q.options}
                       \cup (IF q.default # Undef THEN {q.default} ELSE {})
                       \cup (IF q.required THEN {} ELSE extra)
      IN IF q.multiValue
           THEN \A i \in DOMAIN q.value.items : q.value.items[i] \in allowed
           ELSE q.value \in allowed

\* C22: at a question with options that is not marked non-required (no
\* bundle of the model sets required to false), a line is taken if and only
\* if each of its answers is a number from 1 to the number of options, and
\* the value recorded is always one of the options (or the default).
C22_SelectionFromOne ==
  /\ [][AtSelection => SelectionRule(1)]_vars
  /\ [](pc # "new" => SelectionsIn({}))

\* C22 (amended): the lowest number taken is 1 for a question with required
\* set to true and 0 otherwise; 0 records undefined, every other number the
\* option it stands for.
C22_SelectionRule ==
  /\ [][AtSelection => SelectionRule(IF Action.required THEN 1 ELSE 0)]_vars
  /\ [](pc # "new" => SelectionsIn({Undef}))

\* the required question with options was answered '2' after a line that
\* was no selection
C22_Witness ==
  /\ Runs(requiredOptionsIB) /\ pc = "run" /\ index = 2
  /\ warnings > 0 /\ lastRead = "2"
  /\ results = << ActionRef(1) >>
  /\ interactions[1].value = StrV("Bye")

\* C23: at a question without options and without a default (neither a
\* default of its own nor a previous answer that gives one), an empty line
\* records nothing, writes a warning and prompts the question again, still
\* without a default: so does every empty line after it.
C23_EmptyLineReasks ==
  [][(pc = "ask" /\ Action.options = << >> /\ defaultValue = Undef
        /\ lastRead' = "") =>
       /\ pc' = "ask" /\ index' = index
       /\ results' = results
       /\ warnings' = Inc(warnings, MaxCount)
       /\ prompts' = Inc(prompts, MaxCount)
       /\ defaultValue' = Undef]_vars

\* the question of retryIB is still waiting, without a default, after
\* MaxCount empty lines
C23_Witness ==
  /\ Runs(retryIB) /\ pc = "ask"
  /\ lastRead = "" /\ interactions[1].rawAnswer = StrV("")
  /\ warnings = MaxCount /\ defaultValue = Undef
  /\ results = << >>

\* a question that has a default of its own and no previous answer reads an
\* empty line
AcceptsDefault ==
  /\ pc = "ask" /\ Action.default # Undef /\ Action.rawAnswer = Undef
  /\ lastRead' = ""

\* the default of question q as the value of its result: the option as it
\* is written, the array as it is written, a string read through the type
typedDefault(q) ==
  IF q.options = << >> /\ q.default.kind = "str"
    THEN verifyAnswerForm(translateType(q.type), q.default, q).value
    ELSE q.default

\* C24: an empty line at the first prompt of a question that has a default
\* records the default as the value of the question, with no further prompt
\* and no warning: the typed default of a question without options, the
\* option as it is written of a question with options, and the array of the
\* default itself, not an array holding it, of a question with several
\* values.
C24_EmptyLineRecordsDefault ==
  [][AcceptsDefault =>
       /\ results' = Append(results, ActionRef(index))
       /\ interactions'[index].disposition = ANSWERED
       /\ interactions'[index].value = typedDefault(Action)
       /\ prompts' = prompts /\ warnings' = warnings]_vars

\* a question that a rejected review discarded is prompted again, for the
\* first time in the restarted pass; its previous answer was a line other
\* than '-' and recorded a value
Reprompted ==
  /\ pc = "ask" /\ pass > 1 /\ prompts = 1 /\ warnings = 0
  /\ Action.parameter \in rollback.rejected
  /\ Action.disposition = ANSWERED
  /\ Action.rawAnswer # Undef /\ Action.value # Undef

\* C25: a question prompted again after the rejection of a review has the
\* value it recorded before as its default, whether that value came from a
\* typed value, an option number or an empty line that accepted the default,
\* and an empty line records that value again.
C25_PreviousAnswerIsDefault ==
  /\ [](Reprompted => defaultValue = Action.value)
  /\ [][(Reprompted /\ lastRead' = "") =>
          /\ results' = Append(results, ActionRef(index))
          /\ interactions'[index].value = Action.value]_vars

\* the actions in the window of the review action a: after the review
\* nearest before it, before a
window(a) == (previousReview(a) + 1)..(a - 1)

\* the disposition of action k ends in 'skipped'
wasSkipped(k) == interactions[k].disposition \in {CONDITION_SKIPPED, DEFINED_SKIPPED}

\* the items the pending review displays
reviewed == {included[i] : i \in DOMAIN included}

\* C26: the items of a displayed review hold no statement and no action
\* whose disposition ends in 'skipped'; they hold every question of the
\* window of the review that was not skipped, and the entries of a mapping
\* action exactly when the scope of the review is 'all' (then those of every
\* mapping action of the window that was not skipped).  The count displayed
\* is Len(included).
C26_ReviewItems ==
  pc = "review" =>
    /\ \A ref \in reviewed :
         /\ interactions[ref.a].statement = ""
         /\ interactions[ref.a].review = ""
         /\ ~wasSkipped(ref.a)
         /\ ref.m # 0 => Action.review = "all"
    /\ \A k \in window(index) :
         LET action == interactions[k]
         IN ~wasSkipped(k) =>
              /\ action.prompt # "" => ActionRef(k) \in reviewed
              /\ (action.prompt = "" /\ action.maps # << >> /\ Action.review = "all") =>
                   \A m \in DOMAIN action.maps : MapRef(k, m) \in reviewed

\* the review of reviewMixIB after the answer 'no': the first question
\* and the entry of the mapping without condition are displayed, the
\* skipped question, the skipped mapping and the statement are not
C26_Witness ==
  /\ Runs(reviewMixIB) /\ pc = "review" /\ index = 6
  /\ skipped = {2, 3}
  /\ wasSkipped(2) /\ wasSkipped(3)
  /\ included = << ActionRef(1), MapRef(4, 1) >>

\* the results of parameter p whose value is defined
definedResultsOf(p) ==
  {k \in 1..Len(results) : /\ parameterOf(interactions, results[k]) = p
                            /\ valueOf(interactions, results[k]) # Undef}

\* the value of parameter p in initialParameters, undefined if it has none
initialValue(p) ==
  IF p \in DOMAIN initialParameters THEN initialParameters[p] ELSE Undef

\* C27: in every state get(name) is a defined value an action resolved name
\* to if there is one (false, 0 and the empty string are defined values),
\* else the value of name in initialParameters, else undefined; has(name) is
\* true exactly when an action resolved name to a defined value or name is a
\* key of initialParameters.
C27_GetAndHas ==
  pc \notin {"new", "invalid"} =>
    \A p \in ParameterNames \ {"undefined"} :
      /\ definedResultsOf(p) # {} =>
           Get(p) \in {valueOf(interactions, results[k]) : k \in definedResultsOf(p)}
      /\ definedResultsOf(p) = {} => Get(p) = initialValue(p)
      /\ Has(p) <=> (definedResultsOf(p) # {} \/ p \in DOMAIN initialParameters)

\* what is typed between the separators of a line, written out for the lines
\* of the model: the separator is taken letter by letter, the blanks around
\* it are dropped, and only the separator of the question separates
tokensOf(line, separator) ==
  IF separator = ""
    THEN CASE line = "1,2" -> << "1", "2" >>
           [] line = "1, 3" -> << "1", "3" >>
           [] line = "1,,2" -> << "1", "", "2" >>
           [] line = "Hi , Bye" -> << "Hi", "Bye" >>
           [] OTHER -> << line >>
    ELSE CASE line = "1|&(2" -> << "1", "2" >>
           [] line = "Hi|&(Bye" -> << "Hi", "Bye" >>
           [] OTHER -> << line >>

\* the lines whose tokens are all typed: none is empty
typedLines(separator) ==
  {line \in (Lines \cup ListLines) \ {"", "-"} :
     \A i \in DOMAIN tokensOf(line, separator) : tokensOf(line, separator)[i] # ""}

\* token i of the line, read through the type of question q
coercedToken(q, line, i) ==
  verifyAnswerForm(translateType(q.type), StrV(tokensOf(line, q.separator)[i]), q)

\* C28: a line typed at a question with several values and without options
\* is cut at the separator of the question, taken letter by letter (the comma
\* when there is none, and then only the comma), blanks around the separator
\* dropped; if every token is valid for the type, the value recorded is the
\* array of the coerced tokens in the order typed, and else nothing is
\* recorded and the question is asked again.  A question with one value
\* records the whole line as one value.
C28_SplitOnLiteralSeparator ==
  [][(/\ pc = "ask" /\ Action.options = << >>
      /\ lastRead' \in typedLines(Action.separator)) =>
       LET q == Action
           line == lastRead'
           n == Len(tokensOf(line, q.separator))
       IN IF q.multiValue
            THEN IF \A i \in 1..n : coercedToken(q, line, i).ok
                   THEN /\ results' = Append(results, ActionRef(index))
                        /\ interactions'[index].value =
                             ArrV([i \in 1..n |-> coercedToken(q, line, i).value])
                   ELSE pc' = "ask" /\ results' = results
            ELSE LET r == verifyAnswerForm(translateType(q.type), StrV(line), q)
                 IN IF r.ok
                      THEN /\ results' = Append(results, ActionRef(index))
                           /\ interactions'[index].value = r.value
                      ELSE pc' = "ask" /\ results' = results]_vars

\* multiValueIB, whose separator is '|&(', answered 'Hi|&(Bye'
C28_Witness ==
  /\ Runs(multiValueIB) /\ pc = "done"
  /\ lastRead = "Hi|&(Bye"
  /\ interactions[1].value = ArrV(<< StrV("Hi"), StrV("Bye") >>)

\* a question with one value reads '-'
Unsets == pc = "ask" /\ ~Action.multiValue /\ lastRead' = "-"

\* C29, as stated: after '-' the question, when it is prompted again, is
\* offered no default.
C29_NoDefaultAfterUnset ==
  [][(Unsets /\ pc' = "ask") => defaultValue' = Undef]_vars

\* C29, amended: '-' at a question removes the previous answer of the
\* question; whenever the question is prompted after that, in the same pass
\* or after the rejection of a review, its default is the default the
\* question was configured with (none if it has none), never the previous
\* answer.
C29_UnsetFallsBackToDefault ==
  /\ [][Unsets =>
          /\ interactions'[index].rawAnswer = Undef
          /\ pc' = "ask" => defaultValue' = typedDefault(Action)]_vars
  /\ [](pc = "ask" /\ Action.rawAnswer = Undef => defaultValue = typedDefault(Action))

\* defaultIB (required, default 100) in the pass after a rejection: the
\* previous answer was 12, '-' was refused and the question is prompted
\* with the default 100
C29_Witness ==
  /\ Runs(defaultIB) /\ pass = 2 /\ pc = "ask"
  /\ lastRead = "-" /\ warnings >= 1
  /\ interactions[1].value = IntV(12)
  /\ interactions[1].rawAnswer = Undef
  /\ defaultValue = IntV(100)

\* the step leaves the confirmation loop of the pending review
LeavesReview == pc = "review" /\ (pc' # "review" \/ pass' # pass)

\* a line that is neither empty nor a yes nor a no, read by the pending
\* review, writes one warning and changes nothing else
ReviewWarns ==
  (/\ pc = "review" /\ lastRead' # ""
   /\ ~readsTrue(lastRead') /\ ~readsFalse(lastRead')) =>
    /\ warnings' = Inc(warnings, MaxCount)
    /\ pc' = "review" /\ index' = index /\ pass' = pass
    /\ results' = results /\ interactions' = interactions
    /\ included' = included

nothingToShow(a, k) ==
  \/ interactions[k].review # "" \/ interactions[k].statement # ""
  \/ wasSkipped(k)
  \/ interactions[k].prompt = "" /\ interactions[a].review # "all"

\* the loop is at a review action that has nothing to show
AtEmptyReview ==
  /\ pc = "run"
  /\ Action.review # "" /\ Action.prompt = "" /\ Action.maps = << >>
  /\ Action.statement = "" /\ Action.condition = ""
  /\ \A k \in 1..(index - 1) : nothingToShow(index, k)

\* C31: a review with nothing to show (no action before it, or only
\* statements and skipped actions) is passed as accepted in one step: no
\* line is read, no review is displayed, no result is removed, the pass is
\* not restarted and the loop goes on with the next action.
C31_EmptyReviewAccepted ==
  [][AtEmptyReview =>
       /\ pc' \in {"run", "done"} /\ pass' = pass
       /\ IF index = Len(interactions) THEN pc' = "done" /\ index' = index
                                       ELSE pc' = "run" /\ index' = index + 1
       /\ lastRead' = NoLine /\ displayed' = displayed /\ included' = << >>
       /\ results' = IF Action.parameter # "undefined"
                       THEN Append(results, ActionRef(index)) ELSE results
       /\ rollback' = rollback]_vars

\* question() is over for conditionStatementIB, whose review follows a
\* skipped statement and a statement: no review was displayed
C31_Witness ==
  /\ Runs(conditionStatementIB) /\ pc = "done" /\ index = 3
  /\ pass = 1 /\ displayed = {} /\ lastRead = NoLine
  /\ skipped = {1}

\* the entries of the mapping action under way that have a source
sourced == SelectSeq(Action.maps, LAMBDA map : map.source # "")

\* the method of the Evaluator the type token of a mapping entry asks for
evaluatorOf(token) ==
  IF token \in {"bool", "boolean"} THEN "evalTruth" ELSE "evalNumber"

\* C32: a step that processes a mapping action evaluates the source of
\* every entry that has one with evalTruth when the type token of the entry
\* is 'bool' or 'boolean' and with evalNumber when it is an integer or
\* numeric token.
C32_SourceEvaluator ==
  [][(/\ pc = "run" /\ Action.prompt = "" /\ Action.maps # << >>
      /\ pc' # "error" /\ index \notin skipped' /\ results' # results) =>
       /\ Len(evaluated') = Len(sourced)
       /\ \A i \in DOMAIN sourced :
            evaluated'[i] = [source |-> sourced[i].source,
                             by |-> evaluatorOf(sourced[i].type)]]_vars

\* C33: every entry of the result list, whether of a question, of a skip or
\* of the entry of a mapping, carries one of the dispositions 'answered',
\* 'condition-skipped' and 'defined-skipped'.
C33_ResultDisposition ==
  \A k \in DOMAIN results :
    dispositionOf(interactions, results[k])
      \in {"answered", "condition-skipped", "defined-skipped"}

\* result k is after the step what it was before it: the same entry, with
\* the same value, disposition and rawAnswer
sameResult(k) ==
  /\ k \in DOMAIN results' /\ results'[k] = results[k]
  /\ valueOf(interactions', results[k]) = valueOf(interactions, results[k])
  /\ dispositionOf(interactions', results[k]) = dispositionOf(interactions, results[k])
  /\ results[k].m = 0 =>
       interactions'[results[k].a].rawAnswer = interactions[results[k].a].rawAnswer

\* C34: a step that stays in the pass under way leaves every result of the
\* list in place and as it was: the list only grows, and no value,
\* disposition or rawAnswer of a result already in it changes.
C34_AppendOnly ==
  [][(pc \in {"run", "ask", "review"} /\ pass' = pass) =>
       \A k \in DOMAIN results : sameResult(k)]_vars

\* the next step of the loop evaluates an expression: the condition of the
\* action, its elseSource, or the source of an entry of a mapping
Evaluates ==
  /\ pc = "run"
  /\ \/ Action.condition # ""
     \/ \E m \in DOMAIN Action.maps : Action.maps[m].source # ""

\* the parameters an expression is evaluated with
context == evalParams(interactions, results)

\* C35: whenever an expression is evaluated, every parameter that an action
\* resolved to a defined value stands for such a value in the context, and
\* every other parameter of initialParameters stands for its initial value:
\* a skipped action that recorded no value does not hide it.
C35_EvaluationContext ==
  Evaluates =>
    \A p \in ParameterNames \ {"undefined"} :
      /\ definedResultsOf(p) # {} =>
           /\ p \in DOMAIN context
           /\ context[p] \in {valueOf(interactions, results[k]) : k \in definedResultsOf(p)}
      /\ (definedResultsOf(p) = {} /\ p \in DOMAIN initialParameters) =>
           /\ p \in DOMAIN context
           /\ context[p] = initialParameters[p]

\* the loop of #processActions is at an action
InLoop == pc \in {"run", "ask", "review"}

\* the step is the rejection of a review
Rejects == pc = "review" /\ pass' = pass + 1

\* C36: each pass handles the actions in list order from the first action:
\* within a pass the loop stays at its action or goes to the next one, and
\* only from an action handled to the end; question() starts the first pass
\* at the first action; a pass changes only by the rejection of a review,
\* which starts the next pass at the first action; a pass that ends at the
\* last action ends question() for good, so that the pass a rejection
\* interrupted is never taken up again; the prompts of a pass are written
\* in list order.
C36_PassesInListOrder ==
  [][/\ (pc = "constructed" /\ pc' = "run") => (index' = 1 /\ pass' = 1)
     /\ (InLoop /\ pass' = pass) =>
          /\ index' \in {index, index + 1}
          /\ index' = index + 1 => pc' = "run"
          /\ pc' = "done" => index = Len(interactions)
          /\ asked' # asked =>
               /\ asked' = asked \cup {index}
               /\ \A k \in asked : k < index
     /\ (pass # 0 /\ pass' # pass) =>
          /\ Rejects
          /\ Action.review # ""
          /\ lastRead' \in {"n", "no", "N", "NO", "No", "false", "f"} \cap Lines
          /\ index' = 1
          /\ pc' = "run"
          /\ asked' = {}
     /\ pc \in {"done", "error"} => UNCHANGED << pc, index, pass, results, prompts >>
    ]_vars

\* a second pass is over after a review that is not the last action was
\* rejected in the first one
C36_Witness ==
  /\ pc = "done"
  /\ pass = 2
  /\ rollback.by < Len(interactions)
  /\ asked # {}

\* C37: for every parameter that has at least one result, get(parameter)
\* is values[parameter].
C37_GetIsValues ==
  \A p \in ParameterNames \ {"undefined"} :
    getResult(interactions, results, p) # 0 =>
      /\ p \in DOMAIN values(interactions, results)
      /\ get(interactions, results, p) = values(interactions, results)[p]

\* action k was executed in the current pass: a question was asked in it; a
\* mapping action was passed by the loop without a condition skip in this
\* pass (a defined skip, in whatever pass, is left aside)
executedInPass(k) ==
  IF interactions[k].prompt # "" THEN k \in asked
  ELSE k < index /\ k \notin skipped /\ interactions[k].disposition # DEFINED_SKIPPED

\* C38: a displayed review holds every question of its window that was
\* executed in the current pass and, when its scope is 'all', the entries of
\* every mapping action of its window that was executed in the current
\* pass, whatever happened to the action in an earlier pass.
C38_ReviewOfCurrentPass ==
  pc = "review" =>
    \A k \in window(index) :
      LET action == interactions[k]
      IN executedInPass(k) =>
           /\ action.prompt # "" => ActionRef(k) \in reviewed
           /\ (action.prompt = "" /\ action.maps # << >> /\ Action.review = "all") =>
                \A m \in DOMAIN action.maps : MapRef(k, m) \in reviewed

\* C39: every entry of the result list names a parameter, and values has
\* no key 'undefined'.
C39_ResultsNameParameter ==
  /\ \A k \in 1..Len(results) : parameterOf(interactions, results[k]) # "undefined"
  /\ "undefined" \notin DOMAIN values(interactions, results)

====
